---- MODULE Spec2Model ----
(***************************************************************************)
(* State-machine model of server/python_downloader.py: main() checks the   *)
(* argument count, creates the output directory and runs                   *)
(* download_youtube_audio(), which tries the eight strategies in list      *)
(* order.  The extraction engine (yt_dlp), the thumbnail byte fetch        *)
(* (urllib) and the file system are the environment: every outcome they    *)
(* can produce is a nondeterministic choice of the corresponding action.   *)
(*                                                                         *)
(* Encodings.  A Python dict is a function whose DOMAIN is the set of keys *)
(* present.  A string that the code inspects (a thumbnail URL) is a        *)
(* sequence of tokens, "" being << >>.  A file name is the sequence of its *)
(* parts, <<"file_id", ext>> or <<"file_id", "_thumbnail", ext>>; the      *)
(* Python value None in a file-name position is << >>.                     *)
(***************************************************************************)
EXTENDS Integers, Sequences, FiniteSets, TLC

VARIABLES
    pc,                 \* position in main / download_youtube_audio
    argv_len,           \* len(sys.argv)
    argv_url,           \* sys.argv[1], the raw URL
    clean_url_str,      \* local clean_url_str of download_youtube_audio
    selected_url,       \* local thumbnail_url of download_thumbnail after
                        \* line 40
    dir_exists,         \* the output directory exists
    i,                  \* 1-based index of the strategy of the for loop
    options,            \* the merged configuration of the current attempt
    info,               \* local info of the current attempt
    thumbnail_filename, \* local thumbnail_filename of the current attempt
    fetch,              \* what download_thumbnail did in the current attempt
    files,              \* extensions e such that {file_id}.e exists
    written,            \* extensions written by the download call of the
                        \* current attempt
    thumbs,             \* extensions e such that {file_id}_thumbnail.e exists
    result,             \* << >> or <<r>>, r the record returned by
                        \* download_youtube_audio
    error,              \* << >> or <<m>>, m the message of an exception
                        \* that left download_youtube_audio
    stdout,             \* the JSON documents printed, in order
    last_line,          \* kind of the last line printed: none, text or json
    exit_code,          \* -1 while running, else the process exit status
    extract_calls,      \* per strategy, number of extract_info calls
    last_download,      \* strategy of the latest download call, 0 if none
    mkdir_calls,        \* number of Path(output_dir).mkdir calls
    failed              \* strategies whose attempt ended without a return

vars == <<pc, argv_len, argv_url, clean_url_str, selected_url, dir_exists, i,
          options, info, thumbnail_filename,
          fetch, files, written, thumbs, result, error, stdout, last_line,
          exit_code, extract_calls, last_download, mkdir_calls, failed>>

----------------------------------------------------------------------------
(* Bounds of the exploration *)

\* largest len(sys.argv) tried
MaxArgc == 4

\* largest number of files one download call leaves behind
MaxWritten == 1

\* largest number of tokens of a URL handed to clean_url
MaxUrlLen == 6

\* longest thumbnail candidate list handed to download_thumbnail on its own
MaxThumbs == 3

\* largest width and height of a thumbnail candidate
MaxDim == 2

----------------------------------------------------------------------------
(* Static data of download_youtube_audio *)

strategies == <<
    [name |-> "Android Client",
     extractor_args |-> [player_client |-> <<"android">>],
     user_agent |-> "com.google.android.youtube/17.31.35"],
    [name |-> "iOS Client",
     extractor_args |-> [player_client |-> <<"ios">>],
     user_agent |-> "com.google.ios.youtube/17.33.2"],
    [name |-> "TV Client",
     extractor_args |-> [player_client |-> <<"tv">>]],
    [name |-> "Web Client with Bypass",
     extractor_args |-> [player_client |-> <<"web">>,
                         player_skip |-> <<"configs", "webpage">>],
     user_agent |-> "Mozilla/5.0 Chrome/120.0.0.0"],
    [name |-> "Android Music",
     extractor_args |-> [player_client |-> <<"android_music">>],
     user_agent |-> "com.google.android.apps.youtube.music/5.16.51"],
    [name |-> "TV Embedded",
     extractor_args |-> [player_client |-> <<"tv_embedded">>]],
    [name |-> "Age Gate Bypass",
     extractor_args |-> [player_client |-> <<"android">>,
                         player_skip |-> <<"dash", "hls">>],
     age_limit |-> 99],
    [name |-> "Embed Bypass",
     embed_subs |-> TRUE,
     writesubtitles |-> FALSE,
     user_agent |-> "Mozilla/5.0 Googlebot/2.1"] >>

NumStrategies == Len(strategies)

base_options ==
    [format |-> "bestaudio[ext=m4a]/bestaudio[ext=webm]/bestaudio/best",
     extractaudio |-> TRUE,
     audioformat |-> "mp3",
     audioquality |-> 0,
     prefer_ffmpeg |-> TRUE,
     postprocessor_args |-> <<"-ar", "44100", "-ac", "2">>,
     outtmpl |-> <<"file_id", "%(ext)s">>,
     quiet |-> FALSE,
     no_warnings |-> TRUE,
     ignoreerrors |-> TRUE,
     retries |-> 3,
     fragment_retries |-> 3,
     skip_unavailable_fragments |-> TRUE,
     progress_hooks |-> <<"progress_hook">>]

\* {**base_options, **strategy}: the right operand wins on a shared key
MergeOptions(base, strategy) ==
    [k \in (DOMAIN base) \cup (DOMAIN strategy) |->
        IF k \in DOMAIN strategy THEN strategy[k] ELSE base[k]]

\* variant of ProbeOrder: webm probed before m4a
ProbeOrder_webm_first == <<"mp3", "webm", "m4a", "ogg">>

\* the extensions probed after a download, in probe order
ProbeOrder == <<"mp3", "m4a", "webm", "ogg">>

AudioExts == {ProbeOrder[k] : k \in 1..Len(ProbeOrder)}

\* what the engine may leave in the directory under the output template:
\* a finished file of a probed extension, or a partial download
WritableExts == AudioExts \cup {"part"}

ThumbExts == {"jpg", "webp", "png"}

UsageMessage == "Usage: python_downloader.py <url> <output_dir>"

ExhaustedMessage == "All download strategies failed"

FailureRecord(msg) == [success |-> FALSE, error |-> msg]

----------------------------------------------------------------------------
(* clean_url.  A URL is a sequence of tokens: the three parts of each       *)
(* marker ("&", the parameter name, "=") and any other text.                *)

ListMarker == <<"&", "list", "=">>

RadioMarker == <<"&", "start_radio", "=">>

UrlTokens == {"&", "=", "list", "start_radio", "v"}

\* the URLs of at most MaxUrlLen tokens
Urls == UNION {[1..n -> UrlTokens] : n \in 0..MaxUrlLen}

\* the URLs a run of main is started with
UrlSamples ==
    { <<"v", "&", "list", "=", "v", "&", "start_radio", "=", "v">>,
      <<"v", "=", "v">> }

\* str.find: the first position at or after k where sep occurs in s, 0 when
\* there is none
RECURSIVE FindFrom(_, _, _)
FindFrom(s, sep, k) ==
    IF k + Len(sep) - 1 > Len(s) THEN 0
    ELSE IF SubSeq(s, k, k + Len(sep) - 1) = sep THEN k
    ELSE FindFrom(s, sep, k + 1)

\* s.split(sep)[0]: the text before the first occurrence of sep, or s
SplitFirst(s, sep) ==
    LET p == FindFrom(s, sep, 1)
    IN  IF p = 0 THEN s ELSE SubSeq(s, 1, p - 1)

\* s.rsplit(sep, 1)[0]: the text before the last occurrence of sep, or s
RECURSIVE FindLastFrom(_, _, _)
FindLastFrom(s, sep, k) ==
    IF k < 1 THEN 0
    ELSE IF SubSeq(s, k, k + Len(sep) - 1) = sep THEN k
    ELSE FindLastFrom(s, sep, k - 1)

SplitLast(s, sep) ==
    LET p == FindLastFrom(s, sep, Len(s) - Len(sep) + 1)
    IN  IF p = 0 THEN s ELSE SubSeq(s, 1, p - 1)

\* variant of clean_url: each cut is made at the last occurrence
clean_url_rsplit(u) == SplitLast(SplitLast(u, ListMarker), RadioMarker)

\* variant of clean_url: the radio parameter is not cut
clean_url_list_only(u) == SplitFirst(u, ListMarker)

\* line 15
clean_url(u) == SplitFirst(SplitFirst(u, ListMarker), RadioMarker)

----------------------------------------------------------------------------
(* Initial state: the process has been started with argv_len arguments *)

NoCalls == [k \in 1..NumStrategies |-> 0]

Init ==
    /\ pc = "main"
    /\ argv_len \in 1..MaxArgc
    /\ argv_url \in UrlSamples
    /\ clean_url_str = << >>
    /\ selected_url = << >>
    /\ dir_exists \in BOOLEAN
    /\ i = 0
    /\ options = << >>
    /\ info = << >>
    /\ thumbnail_filename = << >>
    /\ fetch = "none"
    /\ files = {}
    /\ written = {}
    /\ thumbs = {}
    /\ result = << >>
    /\ error = << >>
    /\ stdout = << >>
    /\ last_line = "none"
    /\ exit_code = -1
    /\ extract_calls = NoCalls
    /\ last_download = 0
    /\ mkdir_calls = 0
    /\ failed = {}

----------------------------------------------------------------------------
(* download_thumbnail *)

\* the Python value None where a number is expected (real sizes are >= 0)
NoneVal == -1

\* dict.get(key, default): the default only when the key is absent
Get(d, key, default) == IF key \in DOMAIN d THEN d[key] ELSE default

\* None * n raises TypeError
AreaRaises(x) == Get(x, "width", 0) = NoneVal \/ Get(x, "height", 0) = NoneVal

Area(x) == Get(x, "width", 0) * Get(x, "height", 0)

\* max(thumbnails, key=...) evaluates the key of every element
KeyRaises(thumbnails) ==
    \E k \in 1..Len(thumbnails) : AreaRaises(thumbnails[k])

\* variant of MaxIndex: the candidate is replaced on an equal key too
RECURSIVE MaxIndex_last(_, _, _)
MaxIndex_last(thumbnails, k, best) ==
    IF k > Len(thumbnails) THEN best
    ELSE MaxIndex_last(thumbnails, k + 1,
                       IF Area(thumbnails[k]) >= Area(thumbnails[best])
                       THEN k ELSE best)

\* max() scans left to right and replaces its candidate on a strictly
\* greater key only
RECURSIVE MaxIndex(_, _, _)
MaxIndex(thumbnails, k, best) ==
    IF k > Len(thumbnails) THEN best
    ELSE MaxIndex(thumbnails, k + 1,
                  IF Area(thumbnails[k]) > Area(thumbnails[best])
                  THEN k ELSE best)

best_thumbnail(thumbnails) == thumbnails[MaxIndex(thumbnails, 2, 1)]

HasThumbnails(inf) ==
    "thumbnails" \in DOMAIN inf /\ Len(inf["thumbnails"]) > 0

\* thumbnail_url after lines 31-40; << >> stands for None and for ""
thumbnail_url(inf) ==
    IF HasThumbnails(inf)
    THEN Get(best_thumbnail(inf["thumbnails"]), "url", << >>)
    ELSE << >>

\* str.lower() on the tokens used
Lower(t) == IF t = "WEBP" THEN "webp" ELSE IF t = "PNG" THEN "png" ELSE t

\* s in url.lower()
Contains(url, s) == \E k \in 1..Len(url) : Lower(url[k]) = s

thumbnail_ext(url) ==
    IF Contains(url, "webp") THEN "webp"
    ELSE IF Contains(url, "png") THEN "png"
    ELSE "jpg"

\* outcomes of urllib.request.urlretrieve: the file is written; it raises
\* before creating the file; it raises after creating the file
NetOutcomes == {"ok", "error", "error_partial"}

\* variant of download_thumbnail: the except clause of lines 60-62 lets the
\* exception of the byte fetch through
download_thumbnail_reraise(inf, net) ==
    IF HasThumbnails(inf) /\ KeyRaises(inf["thumbnails"])
    THEN [raises |-> TRUE, value |-> << >>, wrote |-> {},
          status |-> "type_error"]
    ELSE LET url == thumbnail_url(inf)
             ext == thumbnail_ext(url)
         IN  IF url = << >>
             THEN [raises |-> FALSE, value |-> << >>, wrote |-> {},
                   status |-> "no_url"]
             ELSE IF net = "ok"
             THEN [raises |-> FALSE,
                   value |-> <<"file_id", "_thumbnail", ext>>,
                   wrote |-> {ext}, status |-> "fetched"]
             ELSE [raises |-> TRUE, value |-> << >>,
                   wrote |-> IF net = "error_partial" THEN {ext} ELSE {},
                   status |-> "fetch_error"]

\* download_thumbnail(info, file_id, output_dir) under the outcome net of the
\* byte fetch.  raises: an exception leaves the function; value: the value
\* returned; wrote: thumbnail extensions written; status: what happened.
download_thumbnail(inf, net) ==
    IF HasThumbnails(inf) /\ KeyRaises(inf["thumbnails"])
    THEN [raises |-> TRUE, value |-> << >>, wrote |-> {},
          status |-> "type_error"]
    ELSE LET url == thumbnail_url(inf)
             ext == thumbnail_ext(url)
         IN  IF url = << >>
             THEN [raises |-> FALSE, value |-> << >>, wrote |-> {},
                   status |-> "no_url"]
             ELSE IF net = "ok"
             THEN [raises |-> FALSE,
                   value |-> <<"file_id", "_thumbnail", ext>>,
                   wrote |-> {ext}, status |-> "fetched"]
             ELSE [raises |-> FALSE, value |-> << >>,
                   wrote |-> IF net = "error_partial" THEN {ext} ELSE {},
                   status |-> "fetch_error"]

----------------------------------------------------------------------------
(* Metadata the extraction engine may return *)

ThumbnailLists ==
    { << >>,
      <<[url |-> <<"hq", "jpg">>]>>,
      <<[width |-> 1, height |-> 1]>>,
      <<[width |-> NoneVal, height |-> NoneVal, url |-> <<"hq", "jpg">>]>>,
      <<[width |-> 1, height |-> 1, url |-> <<"lo", "png">>],
        [width |-> 2, height |-> 2, url |-> <<"hi", "webp">>]>>,
      <<[width |-> 2, height |-> 1, url |-> <<"a", "PNG", "WEBP">>],
        [width |-> 1, height |-> 2, url |-> <<"b", "jpg">>]>>,
      <<[width |-> 1, url |-> <<"w", "png">>],
        [width |-> 1, height |-> 1, url |-> <<"b", "jpg">>]>> }

\* the Python value None where a string is expected
NoneStr == "<None>"

\* the uploader and the channel: the key is absent ("<absent>"), or its
\* value is None or a name
UploaderOpts == {"<absent>", NoneStr, "Uploader"}

ChannelOpts == {"<absent>", NoneStr, "Channel"}

Metadata(u, c) ==
    [key \in {"title"} \cup (IF u = "<absent>" THEN {} ELSE {"uploader"})
                       \cup (IF c = "<absent>" THEN {} ELSE {"channel"}) |->
        CASE key = "title" -> "Artist - Song"
          [] key = "uploader" -> u
          [] key = "channel" -> c]

Infos ==
    {[title |-> "T"]}
    \cup {[title |-> "T", thumbnails |-> t] : t \in ThumbnailLists}
    \cup {Metadata(u, c) : u \in UploaderOpts, c \in ChannelOpts}

----------------------------------------------------------------------------
(* main *)

\* variant of Main: the argument check is `< 3` instead of `!= 3`
Main_less_than ==
    /\ pc = "main"
    /\ IF argv_len < 3
       THEN /\ stdout' = Append(stdout, FailureRecord(UsageMessage))
            /\ last_line' = "json"
            /\ exit_code' = 1
            /\ pc' = "exit"
       ELSE /\ pc' = "mkdir"
            /\ UNCHANGED <<stdout, last_line, exit_code>>
    /\ UNCHANGED <<argv_url, selected_url, clean_url_str>>
    /\ UNCHANGED <<argv_len, dir_exists, i, options, info,
                   thumbnail_filename, fetch, files, written, thumbs, result,
                   error, extract_calls, last_download, mkdir_calls, failed>>

\* lines 210-215
Main ==
    /\ pc = "main"
    /\ IF argv_len # 3
       THEN /\ stdout' = Append(stdout, FailureRecord(UsageMessage))
            /\ last_line' = "json"
            /\ exit_code' = 1
            /\ pc' = "exit"
       ELSE /\ pc' = "mkdir"
            /\ UNCHANGED <<stdout, last_line, exit_code>>
    /\ UNCHANGED <<argv_url, selected_url, clean_url_str>>
    /\ UNCHANGED <<argv_len, dir_exists, i, options, info,
                   thumbnail_filename, fetch, files, written, thumbs, result,
                   error, extract_calls, last_download, mkdir_calls, failed>>

\* line 218: mkdir(parents=True, exist_ok=True) succeeds on an existing
\* directory; otherwise it creates it or raises (a parent is a file, no
\* permission).  The call is outside the try of main: the exception ends
\* the process with a traceback on stderr.
Mkdir ==
    /\ pc = "mkdir"
    /\ mkdir_calls' = mkdir_calls + 1
    /\ \E ok \in BOOLEAN :
        /\ dir_exists => ok
        /\ IF ok
           THEN /\ dir_exists' = TRUE
                /\ pc' = "setup"
                /\ UNCHANGED exit_code
           ELSE /\ pc' = "exit"
                /\ exit_code' = 1
                /\ UNCHANGED dir_exists
    /\ UNCHANGED <<argv_url, selected_url, clean_url_str>>
    /\ UNCHANGED <<argv_len, i, options, info, thumbnail_filename, fetch,
                   files, written, thumbs, result, error, stdout, last_line,
                   extract_calls, last_download, failed>>

----------------------------------------------------------------------------
(* download_youtube_audio *)

\* lines 68-73: clean the URL, print it, generate file_id.  The URL is the
\* caller's text; printing it raises when stdout cannot encode it, and the
\* exception reaches the try of main.
Setup ==
    /\ pc = "setup"
    /\ \E ok \in BOOLEAN :
        IF ok
        THEN /\ i' = 1
             /\ last_line' = "text"
             /\ pc' = "attempt"
             /\ UNCHANGED error
        ELSE /\ error' = <<"UnicodeEncodeError">>
             /\ pc' = "except"
             /\ UNCHANGED <<i, last_line>>
    /\ clean_url_str' = clean_url(argv_url)
    /\ UNCHANGED <<argv_url, selected_url>>
    /\ UNCHANGED <<argv_len, dir_exists, options, info, thumbnail_filename,
                   fetch, files, written, thumbs, result, stdout, exit_code,
                   extract_calls, last_download, mkdir_calls, failed>>

\* variant of Continue: the failed strategy is tried again
Continue_retry ==
    /\ i' = i
    /\ failed' = failed \cup {i}
    /\ info' = << >>
    /\ thumbnail_filename' = << >>
    /\ written' = {}
    /\ pc' = "attempt"

\* `continue`, the except clause of lines 203-205 and the end of the loop
\* body all lead to the next element of strategies.  The locals of the
\* attempt are dead from here on (each is assigned again before it is
\* read), so the model clears them.
Continue ==
    /\ i' = i + 1
    /\ failed' = failed \cup {i}
    /\ info' = << >>
    /\ thumbnail_filename' = << >>
    /\ written' = {}
    /\ pc' = "attempt"

\* variant of ExtractInfo: the strategy is merged into the configuration of
\* the previous attempt (base_options.update(strategy))
ExtractInfo_accumulates ==
    /\ pc = "attempt"
    /\ i <= NumStrategies
    /\ options' = MergeOptions(IF i = 1 THEN base_options ELSE options,
                               strategies[i])
    /\ extract_calls' = [extract_calls EXCEPT ![i] = @ + 1]
    /\ last_line' = "text"
    /\ fetch' = "none"
    /\ \/ Continue
       \/ \E inf \in Infos :
            /\ info' = inf
            /\ pc' = "download"
            /\ UNCHANGED <<i, failed, thumbnail_filename, written>>
    /\ UNCHANGED <<argv_url, selected_url, clean_url_str>>
    /\ UNCHANGED <<argv_len, dir_exists, files, thumbs, result, error,
                   stdout, exit_code, last_download, mkdir_calls>>

\* variant of ExtractInfo: the test `if not info: continue` is missing
ExtractInfo_no_check ==
    /\ pc = "attempt"
    /\ i <= NumStrategies
    /\ options' = MergeOptions(base_options, strategies[i])
    /\ extract_calls' = [extract_calls EXCEPT ![i] = @ + 1]
    /\ last_line' = "text"
    /\ fetch' = "none"
    /\ \/ Continue
       \/ \E inf \in Infos \cup {<< >>} :
            /\ info' = inf
            /\ pc' = "download"
            /\ UNCHANGED <<i, failed, thumbnail_filename, written>>
    /\ UNCHANGED <<argv_url, selected_url, clean_url_str>>
    /\ UNCHANGED <<argv_len, dir_exists, files, thumbs, result, error,
                   stdout, exit_code, last_download, mkdir_calls>>

\* lines 167-176: print the attempt, merge the options, resolve metadata.
\* The engine raises, returns nothing (None or an empty dict), or returns
\* metadata.
ExtractInfo ==
    /\ pc = "attempt"
    /\ i <= NumStrategies
    /\ options' = MergeOptions(base_options, strategies[i])
    /\ extract_calls' = [extract_calls EXCEPT ![i] = @ + 1]
    /\ last_line' = "text"
    /\ fetch' = "none"
    /\ \/ Continue
       \/ \E inf \in Infos :
            /\ info' = inf
            /\ pc' = "download"
            /\ UNCHANGED <<i, failed, thumbnail_filename, written>>
    /\ UNCHANGED <<argv_url, selected_url, clean_url_str>>
    /\ UNCHANGED <<argv_len, dir_exists, files, thumbs, result, error,
                   stdout, exit_code, last_download, mkdir_calls>>

\* line 179: the engine leaves the files of W under the output template and
\* returns or raises
Download ==
    /\ pc = "download"
    /\ last_download' = i
    /\ \E W \in SUBSET WritableExts :
        /\ Cardinality(W) <= MaxWritten
        /\ files' = files \cup W
        /\ \/ Continue
           \/ /\ written' = W
              /\ pc' = "thumbnail"
              /\ UNCHANGED <<i, failed, info, thumbnail_filename>>
    /\ UNCHANGED <<argv_url, selected_url, clean_url_str>>
    /\ UNCHANGED <<argv_len, dir_exists, options, fetch, thumbs, result,
                   error, stdout, last_line, exit_code, extract_calls,
                   mkdir_calls>>

\* variant of Thumbnail: the exception of download_thumbnail is not caught
\* by the loop and reaches main
Thumbnail_propagates ==
    /\ pc = "thumbnail"
    /\ \E net \in NetOutcomes :
        LET r == download_thumbnail(info, net) IN
        /\ fetch' = r.status
        /\ thumbs' = thumbs \cup r.wrote
        /\ IF r.raises
           THEN /\ error' = <<"TypeError">>
                /\ pc' = "except"
                /\ UNCHANGED <<i, failed, info, written, thumbnail_filename>>
           ELSE /\ thumbnail_filename' = r.value
                /\ pc' = "probe"
                /\ UNCHANGED <<i, failed, info, written, error>>
    /\ UNCHANGED <<argv_url, selected_url, clean_url_str>>
    /\ UNCHANGED <<argv_len, dir_exists, options, files, result,
                   stdout, last_line, exit_code, extract_calls,
                   last_download, mkdir_calls>>

\* lines 182-183: an exception of download_thumbnail is caught by the
\* except clause of the loop
Thumbnail ==
    /\ pc = "thumbnail"
    /\ \E net \in NetOutcomes :
        LET r == download_thumbnail(info, net) IN
        /\ fetch' = r.status
        /\ thumbs' = thumbs \cup r.wrote
        /\ IF r.raises
           THEN Continue
           ELSE /\ thumbnail_filename' = r.value
                /\ pc' = "probe"
                /\ UNCHANGED <<i, failed, info, written>>
    /\ UNCHANGED <<argv_url, selected_url, clean_url_str>>
    /\ UNCHANGED <<argv_len, dir_exists, options, files, result, error,
                   stdout, last_line, exit_code, extract_calls,
                   last_download, mkdir_calls>>

\* lines 186-188: the first extension of ProbeOrder whose file exists, ""
\* when there is none
RECURSIVE probe_from(_, _)
probe_from(fs, k) ==
    IF k > Len(ProbeOrder) THEN ""
    ELSE IF ProbeOrder[k] \in fs THEN ProbeOrder[k]
    ELSE probe_from(fs, k + 1)

\* variant of probe: the file is taken to be the mp3 that audioformat asks
\* for whenever some probed file exists
probe_assume_mp3(fs) == IF fs \cap AudioExts # {} THEN "mp3" ELSE ""

probe(fs) == probe_from(fs, 1)

\* lines 190-201
SuccessRecord(inf, ext, thumb, strategy) ==
    [success |-> TRUE,
     filename |-> <<"file_id", ext>>,
     thumbnail |-> thumb,
     title |-> Get(inf, "title", "Unknown"),
     artist |-> Get(inf, "uploader", Get(inf, "channel", "Unknown")),
     duration |-> Get(inf, "duration", 0),
     strategy |-> strategy["name"]]

\* variant of Probe: the success record is stored and the loop goes on
Probe_keeps_going ==
    /\ pc = "probe"
    /\ IF probe(files) # ""
       THEN /\ result' = <<SuccessRecord(info, probe(files),
                                         thumbnail_filename, strategies[i])>>
            /\ i' = i + 1
            /\ pc' = "attempt"
            /\ UNCHANGED <<failed, info, thumbnail_filename, written>>
       ELSE /\ Continue
            /\ UNCHANGED result
    /\ UNCHANGED <<argv_url, selected_url, clean_url_str>>
    /\ UNCHANGED <<argv_len, dir_exists, options, fetch, files, thumbs,
                   error, stdout, last_line, exit_code, extract_calls,
                   last_download, mkdir_calls>>

\* lines 186-201: return on the first file found, else fall out of the loop
\* body
Probe ==
    /\ pc = "probe"
    /\ IF probe(files) # ""
       THEN /\ result' = <<SuccessRecord(info, probe(files),
                                         thumbnail_filename, strategies[i])>>
            /\ pc' = "return"
            /\ UNCHANGED <<i, failed, info, thumbnail_filename, written>>
       ELSE /\ Continue
            /\ UNCHANGED result
    /\ UNCHANGED <<argv_url, selected_url, clean_url_str>>
    /\ UNCHANGED <<argv_len, dir_exists, options, fetch, files, thumbs,
                   error, stdout, last_line, exit_code, extract_calls,
                   last_download, mkdir_calls>>

\* variant of AllFailed: the loop stops one strategy early
AllFailed_early ==
    /\ pc = "attempt"
    /\ i >= NumStrategies
    /\ result' = <<FailureRecord(ExhaustedMessage)>>
    /\ pc' = "return"
    /\ UNCHANGED <<argv_url, selected_url, clean_url_str>>
    /\ UNCHANGED <<argv_len, dir_exists, i, options, info,
                   thumbnail_filename, fetch, files, written, thumbs, error,
                   stdout, last_line, exit_code, extract_calls, last_download,
                   mkdir_calls, failed>>

\* line 207: the loop is exhausted
AllFailed ==
    /\ pc = "attempt"
    /\ i > NumStrategies
    /\ result' = <<FailureRecord(ExhaustedMessage)>>
    /\ pc' = "return"
    /\ UNCHANGED <<argv_url, selected_url, clean_url_str>>
    /\ UNCHANGED <<argv_len, dir_exists, i, options, info,
                   thumbnail_filename, fetch, files, written, thumbs, error,
                   stdout,
                   last_line, exit_code, extract_calls, last_download,
                   mkdir_calls, failed>>

\* line 222
PrintResult ==
    /\ pc = "return"
    /\ stdout' = Append(stdout, result[1])
    /\ last_line' = "json"
    /\ exit_code' = 0
    /\ pc' = "exit"
    /\ UNCHANGED <<argv_url, selected_url, clean_url_str>>
    /\ UNCHANGED <<argv_len, dir_exists, i, options, info,
                   thumbnail_filename, fetch, files, written, thumbs, result,
                   error, extract_calls, last_download, mkdir_calls, failed>>

\* lines 223-224
MainExcept ==
    /\ pc = "except"
    /\ stdout' = Append(stdout, FailureRecord(error[1]))
    /\ last_line' = "json"
    /\ exit_code' = 0
    /\ pc' = "exit"
    /\ UNCHANGED <<argv_url, selected_url, clean_url_str>>
    /\ UNCHANGED <<argv_len, dir_exists, i, options, info,
                   thumbnail_filename, fetch, files, written, thumbs, result,
                   error, extract_calls, last_download, mkdir_calls, failed>>

----------------------------------------------------------------------------

Next ==
    \/ Main
    \/ Mkdir
    \/ Setup
    \/ ExtractInfo
    \/ Download
    \/ Thumbnail
    \/ Probe
    \/ AllFailed
    \/ PrintResult
    \/ MainExcept

Spec == Init /\ [][Next]_vars

----------------------------------------------------------------------------
(* clean_url on its own: it is applied to every URL of Urls, and once more *)
(* to its own result.                                                      *)

InitClean ==
    /\ pc = "clean"
    /\ argv_len = 3
    /\ argv_url \in Urls
    /\ clean_url_str = << >>
    /\ selected_url = << >>
    /\ dir_exists = TRUE
    /\ i = 0
    /\ options = << >>
    /\ info = << >>
    /\ thumbnail_filename = << >>
    /\ fetch = "none"
    /\ files = {}
    /\ written = {}
    /\ thumbs = {}
    /\ result = << >>
    /\ error = << >>
    /\ stdout = << >>
    /\ last_line = "none"
    /\ exit_code = -1
    /\ extract_calls = NoCalls
    /\ last_download = 0
    /\ mkdir_calls = 0
    /\ failed = {}

\* line 68
CleanOnce ==
    /\ pc = "clean"
    /\ clean_url_str' = clean_url(argv_url)
    /\ pc' = "cleaned"
    /\ UNCHANGED <<argv_url, selected_url>>
    /\ UNCHANGED <<argv_len, dir_exists, i, options, info,
                   thumbnail_filename, fetch, files, written, thumbs, result,
                   error, stdout, last_line, exit_code, extract_calls,
                   last_download, mkdir_calls, failed>>

\* clean_url applied to a URL that clean_url returned
CleanAgain ==
    /\ pc = "cleaned"
    /\ clean_url_str' = clean_url(clean_url_str)
    /\ pc' = "recleaned"
    /\ UNCHANGED <<argv_url, selected_url>>
    /\ UNCHANGED <<argv_len, dir_exists, i, options, info,
                   thumbnail_filename, fetch, files, written, thumbs, result,
                   error, stdout, last_line, exit_code, extract_calls,
                   last_download, mkdir_calls, failed>>

NextClean == CleanOnce \/ CleanAgain

SpecClean == InitClean /\ [][NextClean]_vars

----------------------------------------------------------------------------
(* The selection of download_thumbnail on its own: it is applied to every  *)
(* non-empty candidate list of at most MaxThumbs candidates whose width    *)
(* and height are absent or an integer of 0..MaxDim.  The URL of the k-th  *)
(* candidate is k tokens long, so that it names the candidate.             *)

\* a dimension: << >> when the key is absent, else <<n>>
DimOpts == {<< >>} \cup {<<n>> : n \in 0..MaxDim}

PositionUrl(k) == [j \in 1..k |-> "u"]

Candidate(w, h, u) ==
    [key \in {"url"} \cup (IF w = << >> THEN {} ELSE {"width"})
                     \cup (IF h = << >> THEN {} ELSE {"height"}) |->
        CASE key = "url" -> u
          [] key = "width" -> w[1]
          [] key = "height" -> h[1]]

\* the metadata of n candidates whose dimensions are d[1], .., d[n]
SizedInfo(n, d) ==
    [title |-> "T",
     thumbnails |-> [k \in 1..n |->
                        Candidate(d[k][1], d[k][2], PositionUrl(k))]]

InitThumb ==
    /\ pc = "select"
    /\ argv_len = 3
    /\ argv_url = << >>
    /\ clean_url_str = << >>
    /\ selected_url = << >>
    /\ dir_exists = TRUE
    /\ i = 0
    /\ options = << >>
    /\ \E n \in 1..MaxThumbs :
         \E d \in [1..n -> DimOpts \X DimOpts] : info = SizedInfo(n, d)
    /\ thumbnail_filename = << >>
    /\ fetch = "none"
    /\ files = {}
    /\ written = {}
    /\ thumbs = {}
    /\ result = << >>
    /\ error = << >>
    /\ stdout = << >>
    /\ last_line = "none"
    /\ exit_code = -1
    /\ extract_calls = NoCalls
    /\ last_download = 0
    /\ mkdir_calls = 0
    /\ failed = {}

\* lines 31-40
SelectThumbnail ==
    /\ pc = "select"
    /\ selected_url' = thumbnail_url(info)
    /\ pc' = "selected"
    /\ UNCHANGED <<argv_url, clean_url_str>>
    /\ UNCHANGED <<argv_len, dir_exists, i, options, info,
                   thumbnail_filename, fetch, files, written, thumbs, result,
                   error, stdout, last_line, exit_code, extract_calls,
                   last_download, mkdir_calls, failed>>

NextThumb == SelectThumbnail

SpecThumb == InitThumb /\ [][NextThumb]_vars

TypeOK ==
    /\ pc \in {"main", "mkdir", "setup", "attempt", "download", "thumbnail",
               "probe", "return", "except", "exit"}
    /\ i \in 0..(NumStrategies + 1)
    /\ files \subseteq WritableExts
    /\ thumbs \subseteq ThumbExts
    /\ Len(result) <= 1
    /\ Len(stdout) <= 1

----------------------------------------------------------------------------
(* Properties *)

Returned == result # << >>

Succeeded == Returned /\ result[1].success

Exhausted == Returned /\ ~result[1].success

\* the audio files of the request that the probe looks for
AudioFiles == files \cap {"mp3", "m4a", "webm", "ogg"}

\* position of an extension in the documented preference order
Rank(e) ==
    CASE e = "mp3" -> 1 [] e = "m4a" -> 2 [] e = "webm" -> 3 [] e = "ogg" -> 4

SuccessKeys ==
    {"success", "filename", "thumbnail", "title", "artist", "duration",
     "strategy"}

\* C1: strategies are attempted in list order, strategy k only after
\* strategies 1..k-1 have failed; once a strategy succeeds the record
\* carries its name and no later strategy is ever handed to extract_info or
\* download.
C1_FirstSuccessEndsRun ==
    /\ \A k \in 1..NumStrategies :
          /\ extract_calls[k] > 0 => 1..(k - 1) \subseteq failed
          /\ extract_calls[k] <= 1
    /\ last_download > 0 => extract_calls[last_download] > 0
    /\ Succeeded =>
          /\ pc \in {"return", "exit"}
          /\ i \in 1..NumStrategies
          /\ result[1].strategy = strategies[i].name
          /\ failed = 1..(i - 1)
          /\ \A k \in 1..NumStrategies :
                extract_calls[k] = IF k <= i THEN 1 ELSE 0
          /\ last_download = i

\* a run in which strategies 1..3 failed and strategy 4 succeeded has ended
C1_Witness ==
    /\ pc = "exit"
    /\ Succeeded
    /\ failed = 1..3
    /\ result[1].strategy = "Web Client with Bypass"

\* C2 (as claimed): every run ends with exactly one JSON document printed,
\* as the last line of output.
C2_AlwaysOneJson ==
    pc = "exit" => Len(stdout) = 1 /\ last_line = "json"

\* C3: the record returned is the exhaustion failure record exactly when
\* all eight strategies failed, and is a success record otherwise.
C3_FailureIffAllFailed ==
    Returned =>
        /\ (result[1] = [success |-> FALSE,
                         error |-> "All download strategies failed"])
              <=> (failed = 1..8)
        /\ \/ result[1] = [success |-> FALSE,
                           error |-> "All download strategies failed"]
           \/ /\ DOMAIN result[1] = SuccessKeys
              /\ result[1].success

\* the failure record has been returned after eight failed attempts
C3_Witness ==
    /\ pc = "exit"
    /\ Exhausted
    /\ failed = 1..8
    /\ \A k \in 1..8 : extract_calls[k] = 1

\* C4 (as claimed): when the failure record is returned no probed audio
\* file of the request exists in the output directory.
C4_NoAudioOnFailure ==
    Exhausted => AudioFiles = {}

\* C5: the filename of a success record is {file_id}.{ext} with ext one of
\* mp3, m4a, webm, ogg, and that file exists.
C5_FilenameExists ==
    Succeeded =>
        /\ Len(result[1].filename) = 2
        /\ result[1].filename[1] = "file_id"
        /\ result[1].filename[2] \in AudioFiles

\* a success record naming a file other than the mp3 asked for
C5_Witness ==
    /\ pc = "exit"
    /\ Succeeded
    /\ result[1].filename = <<"file_id", "webm">>
    /\ "mp3" \notin files

\* C6 (as claimed): on success the directory holds exactly one audio file
\* and at most one thumbnail file of the request.
C6_OneAudioOneThumbnail ==
    Succeeded => Cardinality(AudioFiles) = 1 /\ Cardinality(thumbs) <= 1

\* C7: when the byte fetch of the thumbnail raises, download_thumbnail
\* returns None, and if a probed audio file exists the attempt returns a
\* success record with thumbnail None tagged with the same strategy.
C7_FetchErrorIsolated ==
    fetch = "fetch_error" =>
        /\ thumbnail_filename = << >>
        /\ AudioFiles # {} =>
              /\ pc \in {"probe", "return", "exit"}
              /\ pc # "probe" =>
                    /\ Succeeded
                    /\ result[1].thumbnail = << >>
                    /\ result[1].strategy = strategies[i].name
                    /\ i \notin failed

\* a success record returned by an attempt whose thumbnail fetch raised
C7_Witness ==
    /\ pc = "exit"
    /\ fetch = "fetch_error"
    /\ Succeeded
    /\ result[1].thumbnail = << >>

\* C8 (as claimed): download_thumbnail never raises into the loop, so an
\* attempt that reached the thumbnail step with a probed audio file in
\* place goes on to the probe and returns success.
C8_ThumbnailNeverFatal ==
    /\ fetch # "type_error"
    /\ (fetch # "none" /\ AudioFiles # {}) =>
          pc \in {"probe", "return", "exit"}

\* C9: the filename of a success record has the first extension, in the
\* order mp3, m4a, webm, ogg, whose file exists, whichever file the last
\* download wrote.
C9_ProbePriority ==
    Succeeded =>
        \A e \in AudioFiles : Rank(result[1].filename[2]) <= Rank(e)

\* m4a is reported although webm exists too and is the file written last
C9_Witness ==
    /\ pc = "exit"
    /\ Succeeded
    /\ {"m4a", "webm"} \subseteq files
    /\ written = {"webm"}
    /\ result[1].filename = <<"file_id", "m4a">>

\* C10: with an argument count other than two, main prints the usage
\* failure, exits non-zero, and neither creates the directory nor calls the
\* engine; with exactly two arguments the usage failure is never printed.
C10_ArgumentCount ==
    /\ argv_len # 3 =>
          /\ pc \in {"main", "exit"}
          /\ mkdir_calls = 0
          /\ \A k \in 1..NumStrategies : extract_calls[k] = 0
          /\ last_download = 0
          /\ files = {} /\ thumbs = {}
          /\ pc = "exit" =>
                /\ stdout = <<[success |-> FALSE,
                               error |-> "Usage: python_downloader.py <url> <output_dir>"]>>
                /\ last_line = "json"
                /\ exit_code = 1
    /\ argv_len = 3 =>
          /\ \A k \in 1..Len(stdout) :
                stdout[k] # [success |-> FALSE,
                             error |-> "Usage: python_downloader.py <url> <output_dir>"]
          /\ pc = "exit" => mkdir_calls = 1

\* a run started with three arguments has ended with the usage failure
C10_Witness ==
    /\ pc = "exit"
    /\ argv_len = 4
    /\ exit_code = 1
    /\ Len(stdout) = 1

\* sep occurs in s at position p
OccursAt(s, sep, p) ==
    /\ p \in 1..(Len(s) - Len(sep) + 1)
    /\ \A j \in 1..Len(sep) : s[p + j - 1] = sep[j]

HasMarker(s, sep) == \E p \in 1..Len(s) : OccursAt(s, sep, p)

\* s with everything from the first occurrence of sep onward removed
CutAtFirst(s, sep) ==
    IF HasMarker(s, sep)
    THEN LET p == CHOOSE q \in 1..Len(s) :
                      /\ OccursAt(s, sep, q)
                      /\ \A r \in 1..(q - 1) : ~OccursAt(s, sep, r)
         IN  [j \in 1..(p - 1) |-> s[j]]
    ELSE s

\* C11: clean_url is idempotent: applied to its own result it returns that
\* result unchanged.
C11_CleanIdempotent ==
    [][pc = "cleaned" => clean_url_str' = clean_url_str]_vars

\* a URL that the first application shortened has been cleaned twice
C11_Witness ==
    /\ pc = "recleaned"
    /\ argv_url = <<"v", "&", "list", "=", "&", "list">>
    /\ clean_url_str = <<"v">>

\* C12: clean_url(u) is u cut at the first &list= and then cut at the first
\* &start_radio=; the result holds neither marker, and a u that holds
\* neither is returned unchanged.
C12_CleanCutsMarkers ==
    pc = "cleaned" =>
        /\ clean_url_str =
              CutAtFirst(CutAtFirst(argv_url, <<"&", "list", "=">>),
                         <<"&", "start_radio", "=">>)
        /\ ~HasMarker(clean_url_str, <<"&", "list", "=">>)
        /\ ~HasMarker(clean_url_str, <<"&", "start_radio", "=">>)
        /\ (/\ ~HasMarker(argv_url, <<"&", "list", "=">>)
            /\ ~HasMarker(argv_url, <<"&", "start_radio", "=">>))
              => clean_url_str = argv_url

\* a URL with the radio parameter before a broken list parameter is cut at
\* the radio parameter
C12_Witness ==
    /\ pc = "cleaned"
    /\ argv_url = <<"v", "&", "start_radio", "=", "&", "list">>
    /\ clean_url_str = <<"v">>

\* width * height of a candidate, a missing dimension counting as 0
Pixels(x) ==
    (IF "width" \in DOMAIN x THEN x["width"] ELSE 0)
    * (IF "height" \in DOMAIN x THEN x["height"] ELSE 0)

\* C13: of a non-empty candidate list with integer dimensions,
\* download_thumbnail selects a candidate of greatest width * height, and
\* of several such candidates the first of the list.
C13_LargestFirstWins ==
    pc = "selected" =>
        LET ts == info["thumbnails"]
            k  == Len(selected_url)
        IN  /\ k \in 1..Len(ts)
            /\ selected_url = ts[k]["url"]
            /\ \A j \in 1..Len(ts) : Pixels(ts[j]) <= Pixels(ts[k])
            /\ \A j \in 1..(k - 1) : Pixels(ts[j]) < Pixels(ts[k])

\* of three candidates the second and the third share the greatest area and
\* the second has been selected
C13_Witness ==
    /\ pc = "selected"
    /\ Len(info["thumbnails"]) = 3
    /\ Pixels(info["thumbnails"][1]) = 1
    /\ Pixels(info["thumbnails"][2]) = 2
    /\ Pixels(info["thumbnails"][3]) = 2
    /\ selected_url = <<"u", "u">>

\* C14: an attempt whose metadata resolution gives nothing calls neither
\* the download nor the thumbnail fetch nor the probe and the loop moves to
\* the next strategy; a download is started only with the non-empty
\* metadata of the same strategy.
C14_NoMetadataNoDownload ==
    /\ [](pc \in {"download", "thumbnail", "probe"} =>
             /\ DOMAIN info # {}
             /\ extract_calls[i] = 1)
    /\ [][(pc = "attempt" /\ pc' = "attempt") =>
             /\ i' = i + 1
             /\ last_download' = last_download
             /\ files' = files
             /\ thumbs' = thumbs
             /\ fetch' = "none"]_vars
    /\ [][last_download' # last_download =>
             /\ pc = "download"
             /\ DOMAIN info # {}
             /\ extract_calls[i] = 1
             /\ last_download' = i]_vars

\* two attempts resolved no metadata and the loop is at the third strategy
\* without any download, fetch or file
C14_Witness ==
    /\ pc = "attempt"
    /\ i = 3
    /\ extract_calls[1] = 1 /\ extract_calls[2] = 1
    /\ last_download = 0
    /\ fetch = "none"
    /\ files = {} /\ thumbs = {}

StepsLeft ==
    CASE pc = "attempt"   -> 4 * (9 - i) + 4
      [] pc = "download"  -> 4 * (9 - i) + 3
      [] pc = "thumbnail" -> 4 * (9 - i) + 2
      [] pc = "probe"     -> 4 * (9 - i) + 1
      [] OTHER            -> 0

InLoop == pc \in {"attempt", "download", "thumbnail", "probe"}

\* C16: no strategy is attempted twice, attempts are made in strictly
\* increasing index, and the loop ends with a returned record after at most
\* eight attempts: every step of the loop is followed by another step or
\* the return, and lowers a bound on the steps left.
C16_NoRetryAndTermination ==
    /\ [](\A k \in 1..8 : extract_calls[k] <= 1)
    /\ [](InLoop => StepsLeft >= 0 /\ ENABLED Next)
    /\ [][extract_calls' # extract_calls =>
             /\ \A k \in 1..8 : extract_calls[k] = IF k < i THEN 1 ELSE 0
             /\ extract_calls' = [extract_calls EXCEPT ![i] = 1]]_vars
    /\ [][InLoop => /\ StepsLeft' < StepsLeft
                    /\ InLoop' \/ (pc' = "return" /\ Len(result') = 1)]_vars

\* the eighth attempt, after seven failed ones, has returned success
C16_Witness ==
    /\ pc = "exit"
    /\ Succeeded
    /\ i = 8
    /\ \A k \in 1..8 : extract_calls[k] = 1

\* C17 (as claimed): the thumbnail is fetched only by an attempt whose
\* download left a probed audio file, so a run that ends with the failure
\* record leaves no thumbnail file.
C17_ThumbnailOnlyAfterProbe ==
    /\ fetch \in {"fetched", "fetch_error"} => AudioFiles # {}
    /\ Exhausted => thumbs = {}

\* the strategy whose configuration the engine was last given, 0 before the
\* first attempt
LastAttempted == IF pc = "attempt" \/ i = 9 THEN i - 1 ELSE i

\* C18: the configuration given to the engine for a strategy is the base
\* configuration overridden by the fields of that strategy and holds
\* nothing else, in particular no field of an earlier strategy.
C18_OptionsAreBasePlusStrategy ==
    LastAttempted >= 1 =>
        LET st == strategies[LastAttempted] IN
        /\ DOMAIN options = (DOMAIN base_options) \cup (DOMAIN st)
        /\ \A key \in DOMAIN st : options[key] = st[key]
        /\ \A key \in (DOMAIN base_options) \ (DOMAIN st) :
              options[key] = base_options[key]
        /\ LastAttempted \in {3, 6} =>
              {"user_agent", "age_limit"} \cap DOMAIN options = {}
        /\ LastAttempted = 8 =>
              {"extractor_args", "age_limit"} \cap DOMAIN options = {}

\* the third strategy, which sets no user agent, runs without the user
\* agent of the second
C18_Witness ==
    /\ pc = "download"
    /\ i = 3
    /\ options["name"] = "TV Client"
    /\ options["retries"] = 3
    /\ "user_agent" \notin DOMAIN options

\* C19 (as claimed): the file named in a success record was written by the
\* download step of the strategy named in the record, never by an earlier
\* strategy that failed.
C19_FileIsOwnDownload ==
    Succeeded =>
        /\ result[1].strategy = strategies[i].name
        /\ result[1].filename[2] \in written

\* a metadata field holds a value: the key is present and is not None
Available(inf, key) == key \in DOMAIN inf /\ inf[key] # "<None>"

\* C20 (as claimed): the artist of a success record is the uploader when
\* an uploader value is available, else the channel when a channel value is
\* available, else 'Unknown'; the title is the metadata title as it is.
C20_ArtistFallsBack ==
    Succeeded =>
        /\ result[1].artist =
              IF Available(info, "uploader") THEN info["uploader"]
              ELSE IF Available(info, "channel") THEN info["channel"]
              ELSE "Unknown"
        /\ result[1].title = info["title"]

====
